---- MODULE Spec2Model ----
(***************************************************************************)
(* Currency conversion service of the project-budget backend:              *)
(* convertCurrency (live fetch with retry on transport errors) and         *)
(* convertCurrencyWithFallback (static table consulted when the fetch      *)
(* rejects).                                                               *)
(*                                                                         *)
(* Rates are written in hundredths (6.75 is 675), so amount * rate is the  *)
(* converted amount in hundredths.                                         *)
(***************************************************************************)
EXTENDS Integers, Sequences, FiniteSets, TLC

\* ------------------------------------------------------------------------
\* Program constants

MAX_RETRIES == 3

RETRY_DELAY == 1000

FALLBACK_RATES ==
  [ USD |-> [TTD |-> 675, EUR |-> 85, GBP |-> 73],
    EUR |-> [TTD |-> 794, USD |-> 118, GBP |-> 86],
    GBP |-> [TTD |-> 923, USD |-> 137, EUR |-> 116] ]

\* ------------------------------------------------------------------------
\* Bounds of the model and the inputs drawn from them

MaxAmount == 2

MaxRate == 2

\* the calls of convertCurrencyWithFallback the model follows
Calls == {1, 2}

\* the call followed by the sequential specification
SingleCall == {1}

FromCodes == {"USD", "TTD", "usd"}

ToCodes == {"TTD", "USD", "XYZ"}

Amounts == 0 .. MaxAmount

\* rates a provider response can carry: positive numbers, the tabulated
\* USD->TTD rate among them
ProviderRates == (1 .. MaxRate) \cup {FALLBACK_RATES["USD"]["TTD"]}

\* the conversion_rates object of a success response: a map from some
\* currency codes to rates
RateMaps == UNION {[D -> ProviderRates] : D \in {{}, {"TTD"}, {"TTD", "USD"}}}

ErrorIds == {"unsupported-code", "quota-reached"}

\* the parsed objects a well-formed provider response can be
SuccessObjects == {[result |-> "success", conversion_rates |-> m] : m \in RateMaps}

FailureObjects ==
  {[result |-> "error"]}
    \cup {[result |-> "error"] @@ (k :> id) : k \in {"error-type", "error_type"}, id \in ErrorIds}

\* the bodies a response can end with: nothing, text that is not JSON, the
\* JSON literal null, or a JSON object
Bodies ==
  {[kind |-> "empty"], [kind |-> "malformed"], [kind |-> "null"]}
    \cup {[kind |-> "object", obj |-> o] : o \in SuccessObjects \cup FailureObjects}

\* error.code of the 'error' event of the request
ErrorCodes == {"ECONNRESET", "ETIMEDOUT", "ENOTFOUND", "ECONNREFUSED"}

VARIABLES
  pc,          \* per call: "idle", "request", "timer", "fetched", "done"
  args,        \* per call: the arguments of convertCurrencyWithFallback
  retryCount,  \* per call: retryCount of the innermost convertCurrency invocation
  timer,       \* per call: delay of the pending setTimeout, 0 when none
  fetch,       \* per call: the promise of convertCurrency
  result,      \* per call: the promise of convertCurrencyWithFallback
  attempts,    \* per call: number of https.get calls issued
  delays,      \* per call: the delays of the setTimeout calls, in order
  hist,        \* per call: the response/error events received, in order
  aborted,     \* per call: "no", or what the call was waiting for ("request",
               \* "timer") when the caller's HTTP request was aborted
  store,       \* the rows of the project table
  req          \* per HTTP request: the state of its route handler

convVars == <<pc, args, retryCount, timer, fetch, result, attempts, delays, hist, aborted>>

apiVars == <<store, req>>

vars == <<convVars, apiVars>>

Pending == [state |-> "pending"]

Resolved(v) == [state |-> "resolved", value |-> v]

Rejected(e) == [state |-> "rejected", value |-> e]

NoArgs == [fromCurrency |-> "", toCurrency |-> "", amount |-> 0]

\* ------------------------------------------------------------------------
\* convertCurrency: the 'end' handler of the response

\* JSON.parse(data) throws a SyntaxError
ParseThrows(data) == data.kind \in {"empty", "malformed"}

\* response.conversion_rates[toCurrency] is truthy
RateTruthy(response, toCurrency) ==
  /\ toCurrency \in DOMAIN response.conversion_rates
  /\ response.conversion_rates[toCurrency] # 0

\* response.error_type || 'Unknown error'
ErrorTypeOf(response) ==
  IF "error_type" \in DOMAIN response THEN response["error_type"] ELSE "Unknown error"

\* variant: the amount and the rate are added
ConversionOk_Sum(fromCurrency, toCurrency, amount, rate) ==
  [success |-> TRUE, fromCurrency |-> fromCurrency, toCurrency |-> toCurrency,
   amount |-> amount, rate |-> rate, convertedAmount |-> amount + rate]

ConversionOk(fromCurrency, toCurrency, amount, rate) ==
  [success |-> TRUE, fromCurrency |-> fromCurrency, toCurrency |-> toCurrency,
   amount |-> amount, rate |-> rate, convertedAmount |-> amount * rate]

\* variant: a missing currency is reported as a provider error
CurrencyNotFound_AsApiError(toCurrency) ==
  [success |-> FALSE, error |-> <<"Currency not found in response", toCurrency>>,
   errorType |-> "API_ERROR"]

CurrencyNotFound(toCurrency) ==
  [success |-> FALSE, error |-> <<"Currency not found in response", toCurrency>>,
   errorType |-> "CURRENCY_NOT_FOUND"]

\* variant: the response is not attached to the error
ApiError_NoDetails(response) ==
  [success |-> FALSE, error |-> <<"API Error", ErrorTypeOf(response)>>,
   errorType |-> "API_ERROR"]

ApiError(response) ==
  [success |-> FALSE, error |-> <<"API Error", ErrorTypeOf(response)>>,
   errorType |-> "API_ERROR", details |-> response]

\* variant: a body that does not parse is reported as a provider error
ParseError_AsApiError(name) ==
  [success |-> FALSE, error |-> <<"Failed to parse API response", name>>,
   errorType |-> "API_ERROR"]

ParseError(name) ==
  [success |-> FALSE, error |-> <<"Failed to parse API response", name>>,
   errorType |-> "PARSE_ERROR"]

\* the settlement the 'end' handler makes of the promise
OnEnd(fromCurrency, toCurrency, amount, data) ==
  IF ParseThrows(data) THEN Rejected(ParseError("SyntaxError"))
  ELSE IF data.kind = "null" THEN Rejected(ParseError("TypeError"))
  ELSE LET response == data.obj IN
    IF response.result = "success"
    THEN IF RateTruthy(response, toCurrency)
         THEN Resolved(ConversionOk(fromCurrency, toCurrency, amount,
                                    response.conversion_rates[toCurrency]))
         ELSE Rejected(CurrencyNotFound(toCurrency))
    ELSE Rejected(ApiError(response))

\* ------------------------------------------------------------------------
\* convertCurrency: the 'error' handler of the request

\* variant: the bound is compared with <=
ShouldRetry_OffByOne(count, code) ==
  count <= MAX_RETRIES /\ (code = "ECONNRESET" \/ code = "ETIMEDOUT")

ShouldRetry(count, code) ==
  count < MAX_RETRIES /\ (code = "ECONNRESET" \/ code = "ETIMEDOUT")

\* variant: the same delay before every retry
DelayOf_Flat(count) == RETRY_DELAY

DelayOf(count) == RETRY_DELAY * (count + 1)

\* variant: the configured maximum is reported instead of the count
NetworkError_MaxRetries(count, code) ==
  [success |-> FALSE, error |-> <<"Network error", code>>,
   errorType |-> "NETWORK_ERROR", retries |-> MAX_RETRIES]

NetworkError(count, code) ==
  [success |-> FALSE, error |-> <<"Network error", code>>,
   errorType |-> "NETWORK_ERROR", retries |-> count]

\* ------------------------------------------------------------------------
\* convertCurrencyWithFallback: the catch handler

HasFallback(fromCurrency, toCurrency) ==
  /\ fromCurrency \in DOMAIN FALLBACK_RATES
  /\ toCurrency \in DOMAIN FALLBACK_RATES[fromCurrency]
  /\ FALLBACK_RATES[fromCurrency][toCurrency] # 0

\* variant: the result is not flagged as a fallback
FallbackResult_NoFlag(fromCurrency, toCurrency, amount) ==
  LET rate == FALLBACK_RATES[fromCurrency][toCurrency] IN
  [success |-> TRUE, fromCurrency |-> fromCurrency, toCurrency |-> toCurrency,
   amount |-> amount, rate |-> rate, convertedAmount |-> amount * rate]

FallbackResult(fromCurrency, toCurrency, amount) ==
  LET rate == FALLBACK_RATES[fromCurrency][toCurrency] IN
  [success |-> TRUE, fromCurrency |-> fromCurrency, toCurrency |-> toCurrency,
   amount |-> amount, rate |-> rate, convertedAmount |-> amount * rate,
   fallback |-> TRUE]

\* variant: the error is replaced by a generic one on a miss
OnCatch_Wrapped(fromCurrency, toCurrency, amount, error) ==
  IF HasFallback(fromCurrency, toCurrency)
  THEN Resolved(FallbackResult(fromCurrency, toCurrency, amount))
  ELSE Rejected([success |-> FALSE, error |-> <<"Currency conversion failed", "">>,
                 errorType |-> "CONVERSION_ERROR"])

\* variant: the table is consulted for network errors only
OnCatch_NetworkOnly(fromCurrency, toCurrency, amount, error) ==
  IF error.errorType = "NETWORK_ERROR" /\ HasFallback(fromCurrency, toCurrency)
  THEN Resolved(FallbackResult(fromCurrency, toCurrency, amount))
  ELSE Rejected(error)

\* variant: a pair that is not listed is answered from the inverse pair
OnCatch_InferInverse(fromCurrency, toCurrency, amount, error) ==
  IF HasFallback(fromCurrency, toCurrency)
  THEN Resolved(FallbackResult(fromCurrency, toCurrency, amount))
  ELSE IF HasFallback(toCurrency, fromCurrency)
  THEN Resolved([success |-> TRUE, fromCurrency |-> fromCurrency,
                 toCurrency |-> toCurrency, amount |-> amount,
                 rate |-> 10000 \div FALLBACK_RATES[toCurrency][fromCurrency],
                 convertedAmount |->
                   amount * (10000 \div FALLBACK_RATES[toCurrency][fromCurrency]),
                 fallback |-> TRUE])
  ELSE Rejected(error)

OnCatch(fromCurrency, toCurrency, amount, error) ==
  IF HasFallback(fromCurrency, toCurrency)
  THEN Resolved(FallbackResult(fromCurrency, toCurrency, amount))
  ELSE Rejected(error)

\* ------------------------------------------------------------------------
\* The historical-rate variant of convertCurrency

\* the rates of the variant's table, in hundredths
mockRates == [TTD |-> 680]

\* config.currency.apiKey: not configured, or a key
ApiKeys == {"", "key"}

\* the dates a historical rate is asked for
Dates == {<<"2000", "01", "01">>, <<"2024", "06", "15">>}

\* mockRates[toCurrency] is truthy
HasMock(toCurrency) == toCurrency \in DOMAIN mockRates /\ mockRates[toCurrency] # 0

\* new Error(message)
Error(message, detail) == [message |-> <<message, detail>>]

MockResult(amount, fromCurrency, toCurrency, date) ==
  [success |-> TRUE, convertedAmount |-> amount * mockRates[toCurrency],
   rate |-> mockRates[toCurrency], fromCurrency |-> fromCurrency,
   toCurrency |-> toCurrency, date |-> date, note |-> "Using mock conversion rate"]

\* the body of a historical response: the rates are carried by the field
\* conversion_amounts where the latest-rate response has conversion_rates
HistoricalBody(data) ==
  IF data.kind = "object" /\ "conversion_rates" \in DOMAIN data.obj
  THEN [kind |-> "object",
        obj |-> [result |-> data.obj.result,
                 conversion_amounts |-> data.obj.conversion_rates]]
  ELSE data

\* the settlement the 'end' handler of the variant makes of the promise; the
\* handler reads response.conversion_amounts[toCurrency] before it looks at
\* response.result, and a TypeError is caught like a SyntaxError
HistoricalOnEnd(amount, fromCurrency, toCurrency, date, data) ==
  IF data.kind = "empty" THEN Rejected(Error("Empty response from currency API", ""))
  ELSE IF data.kind = "malformed"
  THEN Rejected(Error("Invalid JSON or unexpected structure from currency API", "SyntaxError"))
  ELSE IF data.kind = "null" \/ "conversion_amounts" \notin DOMAIN data.obj
  THEN Rejected(Error("Invalid JSON or unexpected structure from currency API", "TypeError"))
  ELSE LET response == data.obj IN
    IF response.result = "success"
    THEN IF /\ toCurrency \in DOMAIN response.conversion_amounts
            /\ response.conversion_amounts[toCurrency] # 0
         THEN Resolved([success |-> TRUE,
                        convertedAmount |-> amount * response.conversion_amounts[toCurrency],
                        rate |-> response.conversion_amounts[toCurrency],
                        fromCurrency |-> fromCurrency, toCurrency |-> toCurrency,
                        date |-> date])
         ELSE IF HasMock(toCurrency)
         THEN Resolved(MockResult(amount, fromCurrency, toCurrency, date))
         ELSE Rejected(Error("Conversion rate not available for", toCurrency))
    ELSE Rejected(Error(IF "error-type" \in DOMAIN response THEN response["error-type"]
                        ELSE "Currency conversion failed", ""))

\* ------------------------------------------------------------------------
\* HTTP requests and the project table

\* String.prototype.toUpperCase on the strings of the model
ToUpperCase(str) ==
  CASE str = "usd" -> "USD"
    [] str = "ttd" -> "TTD"
    [] str = "eur" -> "EUR"
    [] OTHER -> str

\* String.prototype.trim on the strings of the model
Trim(str) ==
  CASE str = " Road " -> "Road"
    [] OTHER -> str

\* the JSON value null in a request body
JsonNull == "<null>"

\* the strings of the model that parseInt and parseFloat read a number from;
\* none of them has a fraction, so the two functions agree on them
Numerals == {"1", "2", "1abc", "100", "1800", "2000", "2001", "2024"}

IsNaN(str) == str \notin Numerals

ParseInt(str) ==
  CASE str = "1" -> 1
    [] str = "2" -> 2
    [] str = "1abc" -> 1
    [] str = "100" -> 100
    [] str = "1800" -> 1800
    [] str = "2000" -> 2000
    [] str = "2001" -> 2001
    [] str = "2024" -> 2024

ParseFloat(str) == ParseInt(str)

\* the :id segment of the URLs
UrlIds == {"1", "2", "1abc", "abc"}

\* the ten budget fields of a body; the amounts are fixed
TenFields(projectName, year, currency, budgetUsd) ==
  [projectName |-> projectName, year |-> year, currency |-> currency,
   initialBudgetLocal |-> "100", budgetUsd |-> budgetUsd,
   initialScheduleEstimateMonths |-> "2", adjustedScheduleEstimateMonths |-> "1",
   contingencyRate |-> "2", escalationRate |-> "1", finalBudgetUsd |-> "100"]

WithId(projectId, fields) == ("projectId" :> projectId) @@ fields

\* complete bodies that pass the validation
ValidBodies ==
  { WithId(i, TenFields(nc[1], "2024", nc[2], "100")) :
      i \in {"1", "2"}, nc \in {<<"Road", "USD">>, <<" Road ", "usd">>} }

\* the body of the update test: the ten budget fields, no projectId
TenFieldBody == TenFields("Road", "2024", "USD", "100")

\* bodies the validation refuses: fields missing, a null field, a year out of
\* range, an amount that is not a number
InvalidBodies ==
  { [projectId |-> "1", projectName |-> "Road"],
    WithId("1", TenFields(JsonNull, "2024", "USD", "100")),
    WithId("1", TenFields("Road", "1800", "USD", "100")),
    WithId("1", TenFields("Road", "2024", "USD", "abc")) }

RequestBodies == ValidBodies \cup {TenFieldBody} \cup InvalidBodies

\* error.code of a failed query; "none" is a query that succeeded
DbErrors == {"none", "ER_DUP_ENTRY", "ER_NO_REFERENCED_ROW_2", "ER_DATA_TOO_LONG",
             "PROTOCOL_CONNECTION_LOST"}

sendErrorResponse(error, errorType, statusCode) ==
  [status |-> statusCode,
   body |-> [success |-> FALSE, error |-> error, errorType |-> errorType]]

validateProjectId(projectId) == projectId # "" /\ ~IsNaN(projectId)

requiredFields ==
  <<"projectId", "projectName", "year", "currency", "initialBudgetLocal",
    "budgetUsd", "initialScheduleEstimateMonths", "adjustedScheduleEstimateMonths",
    "contingencyRate", "escalationRate", "finalBudgetUsd">>

numericFields ==
  <<"projectId", "year", "initialBudgetLocal", "budgetUsd",
    "initialScheduleEstimateMonths", "adjustedScheduleEstimateMonths",
    "contingencyRate", "escalationRate", "finalBudgetUsd">>

\* body[field] is neither undefined nor null
Present(body, field) == field \in DOMAIN body /\ body[field] # JsonNull

Elements(fields) == {fields[i] : i \in 1..Len(fields)}

\* the first element of fields that is in failing, "" when there is none
FirstField(fields, failing) ==
  LET hits == {i \in 1..Len(fields) : fields[i] \in failing} IN
  IF hits = {} THEN ""
  ELSE fields[CHOOSE i \in hits : \A j \in hits : i <= j]

validateProjectCreation(body) ==
  LET missing == FirstField(requiredFields,
                              {f \in Elements(requiredFields) : ~Present(body, f)})
      notNumber == FirstField(numericFields,
                              {f \in Elements(numericFields) : IsNaN(body[f])})
  IN
  IF missing # ""
  THEN [isValid |-> FALSE, error |-> "Missing required field: " \o missing]
  ELSE IF notNumber # ""
  THEN [isValid |-> FALSE, error |-> "Field " \o notNumber \o " must be a valid number"]
  ELSE IF ParseInt(body.year) < 1900 \/ ParseInt(body.year) > 2100
  THEN [isValid |-> FALSE, error |-> "Year must be between 1900 and 2100"]
  ELSE [isValid |-> TRUE]

validateAndSanitizeProjectData(projectData) ==
  LET validation == validateProjectCreation(projectData) IN
  IF ~validation.isValid THEN validation
  ELSE [isValid |-> TRUE,
        sanitizedData |->
          [projectId |-> ParseInt(projectData.projectId),
           projectName |-> Trim(projectData.projectName),
           year |-> ParseInt(projectData.year),
           currency |-> ToUpperCase(projectData.currency),
           initialBudgetLocal |-> ParseFloat(projectData.initialBudgetLocal),
           budgetUsd |-> ParseFloat(projectData.budgetUsd),
           initialScheduleEstimateMonths |-> ParseInt(projectData.initialScheduleEstimateMonths),
           adjustedScheduleEstimateMonths |-> ParseInt(projectData.adjustedScheduleEstimateMonths),
           contingencyRate |-> ParseFloat(projectData.contingencyRate),
           escalationRate |-> ParseFloat(projectData.escalationRate),
           finalBudgetUsd |-> ParseFloat(projectData.finalBudgetUsd)]]

handleWriteError(code) ==
  IF code = "ER_DUP_ENTRY"
  THEN sendErrorResponse("Duplicate entry found", "CONFLICT", 409)
  ELSE IF code = "ER_NO_REFERENCED_ROW_2"
  THEN sendErrorResponse("Referenced record not found", "NOT_FOUND", 404)
  ELSE IF code = "ER_DATA_TOO_LONG"
  THEN sendErrorResponse("Data too long for field", "VALIDATION_ERROR", 400)
  ELSE sendErrorResponse("Database operation failed", "DATABASE_ERROR", 500)

\* the values of the UPDATE statement: numbers parsed, projectName and currency
\* as they came
UpdateValues(projectData) ==
  [projectId |-> ParseInt(projectData.projectId),
   projectName |-> projectData.projectName,
   year |-> ParseInt(projectData.year),
   currency |-> projectData.currency,
   initialBudgetLocal |-> ParseFloat(projectData.initialBudgetLocal),
   budgetUsd |-> ParseFloat(projectData.budgetUsd),
   initialScheduleEstimateMonths |-> ParseInt(projectData.initialScheduleEstimateMonths),
   adjustedScheduleEstimateMonths |-> ParseInt(projectData.adjustedScheduleEstimateMonths),
   contingencyRate |-> ParseFloat(projectData.contingencyRate),
   escalationRate |-> ParseFloat(projectData.escalationRate),
   finalBudgetUsd |-> ParseFloat(projectData.finalBudgetUsd)]

\* SELECT ... FROM project WHERE projectId = id
SelectById(rows, id) == SelectSeq(rows, LAMBDA p : p.projectId = id)

\* DELETE FROM project WHERE projectId = id
DeleteById(rows, id) == SelectSeq(rows, LAMBDA p : p.projectId # id)

\* UPDATE project SET ... WHERE projectId = id
UpdateById(rows, id, values) ==
  [i \in 1..Len(rows) |-> IF rows[i].projectId = id THEN values ELSE rows[i]]

\* the HTTP requests the model follows
Reqs == {1, 2}

\* the requests of a client that sends one request at a time
SingleReq == {1}

\* a row of the project table; the amounts are fixed
Project(projectId, projectName, year, currency) ==
  [projectId |-> projectId, projectName |-> projectName, year |-> year,
   currency |-> currency, initialBudgetLocal |-> 100, budgetUsd |-> 100,
   initialScheduleEstimateMonths |-> 2, adjustedScheduleEstimateMonths |-> 1,
   contingencyRate |-> 2, escalationRate |-> 1, finalBudgetUsd |-> 100]

\* the project table when the server starts: a project the budget routes work
\* on and two of the four projects of /api-conversion, one of them budgeted in
\* a currency other than USD
SeedStore ==
  << Project(1, "Road", 2024, "USD"),
     Project(3, "Peking roasted duck Chanel", 2000, "EUR"),
     Project(4, "Rigua Nintendo", 2001, "USD") >>

\* the bodies of POST /project/budget/currency: every pairing of a name, a
\* year and a target currency, a body without currency and a body whose year
\* is not a number
CurrencyBodies ==
  { [projectName |-> n, year |-> y, currency |-> k] :
      n \in {"Road", "Peking roasted duck Chanel", "Nowhere"},
      y \in {"2024", "2000"}, k \in {"TTD", "JPY"} }
    \cup { [projectName |-> "Road", year |-> "2024"],
           [projectName |-> "Road", year |-> "abc", currency |-> "TTD"] }

\* !body[field]: the field is undefined, null or the empty string
Falsy(body, field) == field \notin DOMAIN body \/ body[field] \in {JsonNull, ""}

validateCurrencyRequest(body) ==
  IF Falsy(body, "year") \/ Falsy(body, "projectName") \/ Falsy(body, "currency")
  THEN [isValid |-> FALSE,
        error |-> "Missing required fields: year, projectName, and currency are required"]
  ELSE IF IsNaN(body.year)
  THEN [isValid |-> FALSE, error |-> "Year must be a valid number"]
  ELSE [isValid |-> TRUE]

\* SELECT * FROM project WHERE projectName = ? AND year = ?
SelectByNameYear(rows, projectName, year) ==
  SelectSeq(rows, LAMBDA p : p.projectName = projectName /\ p.year = year)

\* the projects GET /api-conversion converts
specificProjects ==
  << [name |-> "Peking roasted duck Chanel", year |-> 2000],
     [name |-> "Choucroute Cartier", year |-> 2000],
     [name |-> "Rigua Nintendo", year |-> 2001],
     [name |-> "Llapingacho Instagram", year |-> 2000] >>

totalProjects == Len(specificProjects)

\* the conversionData of the conversion routes
ConversionData(project, convertedAmount) ==
  [finalBudgetTtd |-> convertedAmount] @@ project

\* what a client remembers of its previous exchange
NoExchange == [method |-> "none"]

IdleReq == [pc |-> "idle", prev |-> NoExchange]

\* a request received by its route handler; fields holds req.params.id and
\* req.body where the route has them
Received(r, method, fields) ==
  [pc |-> "received", method |-> method, prev |-> req[r].prev] @@ fields

\* the request with its response sent
Answered(q, response) == [res |-> response] @@ [q EXCEPT !.pc = "done"]

\* the request waiting for the callback of a query
Waiting(q, query) == [q EXCEPT !.pc = query]

\* ------------------------------------------------------------------------
\* State machine

Init ==
  /\ pc = [c \in Calls |-> "idle"]
  /\ args = [c \in Calls |-> NoArgs]
  /\ retryCount = [c \in Calls |-> 0]
  /\ timer = [c \in Calls |-> 0]
  /\ fetch = [c \in Calls |-> Pending]
  /\ result = [c \in Calls |-> Pending]
  /\ attempts = [c \in Calls |-> 0]
  /\ delays = [c \in Calls |-> <<>>]
  /\ hist = [c \in Calls |-> <<>>]
  /\ aborted = [c \in Calls |-> "no"]
  /\ store = SeedStore
  /\ req = [r \in Reqs |-> IdleReq]

\* convertCurrencyWithFallback(from, to, amount): convertCurrency is entered
\* with retryCount = 0 and makeRequest issues the first request at once
Call(c, fromCurrency, toCurrency, amount) ==
  /\ pc[c] = "idle"
  /\ args' = [args EXCEPT ![c] = [fromCurrency |-> fromCurrency,
                                  toCurrency |-> toCurrency, amount |-> amount]]
  /\ retryCount' = [retryCount EXCEPT ![c] = 0]
  /\ attempts' = [attempts EXCEPT ![c] = @ + 1]
  /\ pc' = [pc EXCEPT ![c] = "request"]
  /\ UNCHANGED <<timer, fetch, result, delays, hist, aborted, store, req>>

\* variant: a body that does not parse is retried like a transport error
ResponseEnd_RetryOnParse(c, data) ==
  /\ pc[c] = "request"
  /\ hist' = [hist EXCEPT ![c] = Append(@, [type |-> "end", data |-> data])]
  /\ IF ParseThrows(data) /\ retryCount[c] < MAX_RETRIES
     THEN /\ timer' = [timer EXCEPT ![c] = DelayOf(retryCount[c])]
          /\ delays' = [delays EXCEPT ![c] = Append(@, DelayOf(retryCount[c]))]
          /\ pc' = [pc EXCEPT ![c] = "timer"]
          /\ UNCHANGED fetch
     ELSE /\ fetch' = [fetch EXCEPT ![c] =
                 OnEnd(args[c].fromCurrency, args[c].toCurrency, args[c].amount, data)]
          /\ pc' = [pc EXCEPT ![c] = "fetched"]
          /\ UNCHANGED <<timer, delays>>
  /\ UNCHANGED <<args, retryCount, result, attempts, aborted, store, req>>

\* res 'end': the body is complete; the handler settles the promise
ResponseEnd(c, data) ==
  /\ pc[c] = "request"
  /\ hist' = [hist EXCEPT ![c] = Append(@, [type |-> "end", data |-> data])]
  /\ fetch' = [fetch EXCEPT ![c] =
                 OnEnd(args[c].fromCurrency, args[c].toCurrency, args[c].amount, data)]
  /\ pc' = [pc EXCEPT ![c] = "fetched"]
  /\ UNCHANGED <<args, retryCount, timer, result, attempts, delays, aborted, store, req>>

\* variant: one retry counter for all the calls in progress
RequestError_SharedCounter(c, code) ==
  LET shared == retryCount[1] + retryCount[2] IN
  /\ pc[c] = "request"
  /\ hist' = [hist EXCEPT ![c] = Append(@, [type |-> "error", code |-> code])]
  /\ IF ShouldRetry(shared, code)
     THEN /\ timer' = [timer EXCEPT ![c] = DelayOf(shared)]
          /\ delays' = [delays EXCEPT ![c] = Append(@, DelayOf(shared))]
          /\ pc' = [pc EXCEPT ![c] = "timer"]
          /\ UNCHANGED fetch
     ELSE /\ fetch' = [fetch EXCEPT ![c] = Rejected(NetworkError(shared, code))]
          /\ pc' = [pc EXCEPT ![c] = "fetched"]
          /\ UNCHANGED <<timer, delays>>
  /\ UNCHANGED <<args, retryCount, result, attempts, aborted, store, req>>

\* variant: once the retries are used up the promise is left unsettled
RequestError_NoReject(c, code) ==
  /\ pc[c] = "request"
  /\ hist' = [hist EXCEPT ![c] = Append(@, [type |-> "error", code |-> code])]
  /\ IF ShouldRetry(retryCount[c], code)
     THEN /\ timer' = [timer EXCEPT ![c] = DelayOf(retryCount[c])]
          /\ delays' = [delays EXCEPT ![c] = Append(@, DelayOf(retryCount[c]))]
          /\ pc' = [pc EXCEPT ![c] = "timer"]
          /\ UNCHANGED fetch
     ELSE /\ pc' = [pc EXCEPT ![c] = "lost"]
          /\ UNCHANGED <<fetch, timer, delays>>
  /\ UNCHANGED <<args, retryCount, result, attempts, aborted, store, req>>

\* variant: the retry is requested at once and the timer is set as well
RequestError_RequestAndTimer(c, code) ==
  /\ pc[c] = "request"
  /\ hist' = [hist EXCEPT ![c] = Append(@, [type |-> "error", code |-> code])]
  /\ IF ShouldRetry(retryCount[c], code)
     THEN /\ timer' = [timer EXCEPT ![c] = DelayOf(retryCount[c])]
          /\ delays' = [delays EXCEPT ![c] = Append(@, DelayOf(retryCount[c]))]
          /\ retryCount' = [retryCount EXCEPT ![c] = @ + 1]
          /\ attempts' = [attempts EXCEPT ![c] = @ + 1]
          /\ UNCHANGED <<fetch, pc>>
     ELSE /\ fetch' = [fetch EXCEPT ![c] = Rejected(NetworkError(retryCount[c], code))]
          /\ pc' = [pc EXCEPT ![c] = "fetched"]
          /\ UNCHANGED <<timer, delays, retryCount, attempts>>
  /\ UNCHANGED <<args, result, aborted, store, req>>

\* request 'error': schedule the retry or reject
RequestError(c, code) ==
  /\ pc[c] = "request"
  /\ hist' = [hist EXCEPT ![c] = Append(@, [type |-> "error", code |-> code])]
  /\ IF ShouldRetry(retryCount[c], code)
     THEN /\ timer' = [timer EXCEPT ![c] = DelayOf(retryCount[c])]
          /\ delays' = [delays EXCEPT ![c] = Append(@, DelayOf(retryCount[c]))]
          /\ pc' = [pc EXCEPT ![c] = "timer"]
          /\ UNCHANGED fetch
     ELSE /\ fetch' = [fetch EXCEPT ![c] = Rejected(NetworkError(retryCount[c], code))]
          /\ pc' = [pc EXCEPT ![c] = "fetched"]
          /\ UNCHANGED <<timer, delays>>
  /\ UNCHANGED <<args, retryCount, result, attempts, aborted, store, req>>

\* variant: the timer callback increments a counter that all the calls share
TimerFire_SharedCounter(c) ==
  /\ pc[c] = "timer"
  /\ timer' = [timer EXCEPT ![c] = 0]
  /\ retryCount' = [d \in Calls |-> IF pc[d] \in {"request", "timer"}
                                    THEN retryCount[d] + 1 ELSE retryCount[d]]
  /\ attempts' = [attempts EXCEPT ![c] = @ + 1]
  /\ pc' = [pc EXCEPT ![c] = "request"]
  /\ UNCHANGED <<args, fetch, result, delays, hist, aborted, store, req>>

\* the retry timer fires: convertCurrency(..., retryCount + 1) issues the next
\* request; its promise settles the pending one through then/catch
TimerFire(c) ==
  /\ pc[c] = "timer"
  /\ timer' = [timer EXCEPT ![c] = 0]
  /\ retryCount' = [retryCount EXCEPT ![c] = @ + 1]
  /\ attempts' = [attempts EXCEPT ![c] = @ + 1]
  /\ pc' = [pc EXCEPT ![c] = "request"]
  /\ UNCHANGED <<args, fetch, result, delays, hist, aborted, store, req>>

\* variant: a listed pair is answered from the table whatever the fetcher
\* returned
Settle_PreferTable(c) ==
  /\ pc[c] = "fetched"
  /\ result' = [result EXCEPT ![c] =
                  IF HasFallback(args[c].fromCurrency, args[c].toCurrency)
                  THEN Resolved(FallbackResult(args[c].fromCurrency, args[c].toCurrency,
                                               args[c].amount))
                  ELSE fetch[c]]
  /\ pc' = [pc EXCEPT ![c] = "done"]
  /\ UNCHANGED <<args, retryCount, timer, fetch, attempts, delays, hist, aborted, store, req>>

\* the promise of convertCurrency has settled: a result passes through, an
\* error runs the catch handler of convertCurrencyWithFallback
Settle(c) ==
  /\ pc[c] = "fetched"
  /\ result' = [result EXCEPT ![c] =
                  IF fetch[c].state = "resolved" THEN fetch[c]
                  ELSE OnCatch(args[c].fromCurrency, args[c].toCurrency,
                               args[c].amount, fetch[c].value)]
  /\ pc' = [pc EXCEPT ![c] = "done"]
  /\ UNCHANGED <<args, retryCount, timer, fetch, attempts, delays, hist, aborted, store, req>>

\* the caller's HTTP request is aborted while the conversion is under way: the
\* route handler registers no listener for it and convertCurrency takes no
\* cancellation signal, so nothing but the fact changes
Abort(c) ==
  /\ pc[c] \in {"request", "timer"}
  /\ aborted[c] = "no"
  /\ aborted' = [aborted EXCEPT ![c] = pc[c]]
  /\ UNCHANGED <<pc, args, retryCount, timer, fetch, result, attempts, delays, hist,
                 store, req>>

\* variant: the mock table is not consulted before the request
HistoricalCall_LiveFirst(c, amount, fromCurrency, toCurrency, date, apiKey) ==
  /\ pc[c] = "idle"
  /\ args' = [args EXCEPT ![c] = [amount |-> amount, fromCurrency |-> fromCurrency,
                                  toCurrency |-> toCurrency, date |-> date,
                                  apiKey |-> apiKey]]
  /\ IF apiKey = ""
     THEN /\ result' = [result EXCEPT ![c] =
                          Rejected(Error("Currency API key not configured", ""))]
          /\ pc' = [pc EXCEPT ![c] = "done"]
          /\ UNCHANGED attempts
     ELSE /\ attempts' = [attempts EXCEPT ![c] = @ + 1]
          /\ pc' = [pc EXCEPT ![c] = "history"]
          /\ UNCHANGED result
  /\ UNCHANGED <<retryCount, timer, fetch, delays, hist, aborted, store, req>>

\* convertCurrency(amount, fromCurrency, toCurrency, year, month, day) of the
\* historical-rate variant, up to its request
HistoricalCall(c, amount, fromCurrency, toCurrency, date, apiKey) ==
  /\ pc[c] = "idle"
  /\ args' = [args EXCEPT ![c] = [amount |-> amount, fromCurrency |-> fromCurrency,
                                  toCurrency |-> toCurrency, date |-> date,
                                  apiKey |-> apiKey]]
  /\ IF apiKey = ""
     THEN /\ result' = [result EXCEPT ![c] =
                          Rejected(Error("Currency API key not configured", ""))]
          /\ pc' = [pc EXCEPT ![c] = "done"]
          /\ UNCHANGED attempts
     ELSE IF HasMock(toCurrency)
     THEN /\ result' = [result EXCEPT ![c] =
                          Resolved(MockResult(amount, fromCurrency, toCurrency, date))]
          /\ pc' = [pc EXCEPT ![c] = "done"]
          /\ UNCHANGED attempts
     ELSE /\ attempts' = [attempts EXCEPT ![c] = @ + 1]
          /\ pc' = [pc EXCEPT ![c] = "history"]
          /\ UNCHANGED result
  /\ UNCHANGED <<retryCount, timer, fetch, delays, hist, aborted, store, req>>

\* res 'end' of the historical-rate variant
HistoricalEnd(c, data) ==
  /\ pc[c] = "history"
  /\ hist' = [hist EXCEPT ![c] = Append(@, [type |-> "end", data |-> data])]
  /\ result' = [result EXCEPT ![c] =
                  HistoricalOnEnd(args[c].amount, args[c].fromCurrency,
                                  args[c].toCurrency, args[c].date, data)]
  /\ pc' = [pc EXCEPT ![c] = "done"]
  /\ UNCHANGED <<args, retryCount, timer, fetch, attempts, delays, aborted, store, req>>

\* request 'error' of the historical-rate variant: rejected at once
HistoricalError(c, code) ==
  /\ pc[c] = "history"
  /\ hist' = [hist EXCEPT ![c] = Append(@, [type |-> "error", code |-> code])]
  /\ result' = [result EXCEPT ![c] = Rejected(Error("Currency API request failed", code))]
  /\ pc' = [pc EXCEPT ![c] = "done"]
  /\ UNCHANGED <<args, retryCount, timer, fetch, attempts, delays, aborted, store, req>>

\* GET /project/budget/:id
GetBudget(r, id) ==
  /\ req[r].pc = "idle"
  /\ req' = [req EXCEPT ![r] =
       LET q == Received(r, "GET", [id |-> id]) IN
       IF ~validateProjectId(id)
       THEN Answered(q, sendErrorResponse("Invalid project ID. Must be a valid number.",
                                          "VALIDATION_ERROR", 400))
       ELSE Waiting(q, "select")]
  /\ UNCHANGED <<convVars, store>>

\* the callback of the SELECT of GET /project/budget/:id
GetBudgetRows(r, err) ==
  /\ req[r].pc = "select"
  /\ LET rows == SelectById(store, ParseInt(req[r].id)) IN
     req' = [req EXCEPT ![r] =
       IF err # "none"
       THEN Answered(@, sendErrorResponse("Database error occurred", "DATABASE_ERROR", 500))
       ELSE IF Len(rows) = 0
       THEN Answered(@, sendErrorResponse("Project with ID " \o req[r].id \o " not found",
                                          "NOT_FOUND", 404))
       ELSE Answered(@, [status |-> 200, body |-> rows[1]])]
  /\ UNCHANGED <<convVars, store>>

\* POST /project/budget
PostBudget(r, body) ==
  /\ req[r].pc = "idle"
  /\ req' = [req EXCEPT ![r] =
       LET q == Received(r, "POST", [body |-> body])
           validation == validateAndSanitizeProjectData(body)
       IN
       IF ~validation.isValid
       THEN Answered(q, sendErrorResponse(validation.error, "VALIDATION_ERROR", 400))
       ELSE Waiting([projectData |-> validation.sanitizedData] @@ q, "check")]
  /\ UNCHANGED <<convVars, store>>

\* variant: the existence check never reports a conflict
PostBudgetCheck_NoConflict(r, err) ==
  /\ req[r].pc = "check" /\ req[r].method = "POST"
  /\ req' = [req EXCEPT ![r] =
       IF err # "none" THEN Answered(@, handleWriteError(err))
       ELSE Waiting(@, "insert")]
  /\ UNCHANGED <<convVars, store>>

\* the callback of the existence check of POST /project/budget
PostBudgetCheck(r, err) ==
  /\ req[r].pc = "check" /\ req[r].method = "POST"
  /\ LET rows == SelectById(store, req[r].projectData.projectId) IN
     req' = [req EXCEPT ![r] =
       IF err # "none" THEN Answered(@, handleWriteError(err))
       ELSE IF Len(rows) > 0
       THEN Answered(@, sendErrorResponse(
                          "Project with ID " \o ToString(req[r].projectData.projectId)
                            \o " already exists", "CONFLICT", 409))
       ELSE Waiting(@, "insert")]
  /\ UNCHANGED <<convVars, store>>

\* the callback of the INSERT of POST /project/budget
PostBudgetInsert(r, err) ==
  /\ req[r].pc = "insert"
  /\ IF err # "none"
     THEN /\ req' = [req EXCEPT ![r] = Answered(@, handleWriteError(err))]
          /\ UNCHANGED store
     ELSE /\ store' = Append(store, req[r].projectData)
          /\ req' = [req EXCEPT ![r] =
               Answered(@, [status |-> 201, body |-> req[r].projectData])]
  /\ UNCHANGED convVars

\* PUT /project/budget/:id
PutBudget(r, id, body) ==
  /\ req[r].pc = "idle"
  /\ req' = [req EXCEPT ![r] =
       LET q == Received(r, "PUT", [id |-> id, body |-> body])
           validation == validateProjectCreation(body)
       IN
       IF ~validateProjectId(id)
       THEN Answered(q, sendErrorResponse("Invalid project ID. Must be a valid number.",
                                          "VALIDATION_ERROR", 400))
       ELSE IF ~validation.isValid
       THEN Answered(q, sendErrorResponse(validation.error, "VALIDATION_ERROR", 400))
       ELSE Waiting(q, "check")]
  /\ UNCHANGED <<convVars, store>>

\* the callback of the existence check of PUT /project/budget/:id
PutBudgetCheck(r, err) ==
  /\ req[r].pc = "check" /\ req[r].method = "PUT"
  /\ LET rows == SelectById(store, ParseInt(req[r].id)) IN
     req' = [req EXCEPT ![r] =
       IF err # "none"
       THEN Answered(@, sendErrorResponse("Database error occurred", "DATABASE_ERROR", 500))
       ELSE IF Len(rows) = 0
       THEN Answered(@, sendErrorResponse("Project with ID " \o req[r].id \o " not found",
                                          "NOT_FOUND", 404))
       ELSE IF ParseInt(req[r].body.projectId) # ParseInt(req[r].id)
       THEN Waiting(@, "conflict")
       ELSE Waiting(@, "update")]
  /\ UNCHANGED <<convVars, store>>

\* the callback of the conflict check of PUT /project/budget/:id
PutBudgetConflict(r, err) ==
  /\ req[r].pc = "conflict"
  /\ LET conflictRows ==
           SelectSeq(store, LAMBDA p : /\ p.projectId = ParseInt(req[r].body.projectId)
                                       /\ p.projectId # ParseInt(req[r].id))
     IN
     req' = [req EXCEPT ![r] =
       IF err # "none"
       THEN Answered(@, sendErrorResponse("Database error occurred", "DATABASE_ERROR", 500))
       ELSE IF Len(conflictRows) > 0
       THEN Answered(@, sendErrorResponse("Project with ID " \o req[r].body.projectId
                                            \o " already exists", "CONFLICT", 409))
       ELSE Waiting(@, "update")]
  /\ UNCHANGED <<convVars, store>>

\* updateProject: the UPDATE and its callback
updateProject(r, err) ==
  /\ req[r].pc = "update"
  /\ IF err # "none"
     THEN /\ req' = [req EXCEPT ![r] =
               Answered(@, sendErrorResponse("Failed to update project", "DATABASE_ERROR", 500))]
          /\ UNCHANGED store
     ELSE /\ store' = UpdateById(store, ParseInt(req[r].id), UpdateValues(req[r].body))
          /\ req' = [req EXCEPT ![r] = Answered(@, [status |-> 200, body |-> req[r].body])]
  /\ UNCHANGED convVars

\* DELETE /project/budget/:id
DeleteBudget(r, id) ==
  /\ req[r].pc = "idle"
  /\ req' = [req EXCEPT ![r] =
       LET q == Received(r, "DELETE", [id |-> id]) IN
       IF ~validateProjectId(id)
       THEN Answered(q, sendErrorResponse("Invalid project ID. Must be a valid number.",
                                          "VALIDATION_ERROR", 400))
       ELSE Waiting(q, "check")]
  /\ UNCHANGED <<convVars, store>>

\* the callback of the existence check of DELETE /project/budget/:id
DeleteBudgetCheck(r, err) ==
  /\ req[r].pc = "check" /\ req[r].method = "DELETE"
  /\ LET rows == SelectById(store, ParseInt(req[r].id)) IN
     req' = [req EXCEPT ![r] =
       IF err # "none"
       THEN Answered(@, sendErrorResponse("Database error occurred", "DATABASE_ERROR", 500))
       ELSE IF Len(rows) = 0
       THEN Answered(@, sendErrorResponse("Project with ID " \o req[r].id \o " not found",
                                          "NOT_FOUND", 404))
       ELSE Waiting(@, "delete")]
  /\ UNCHANGED <<convVars, store>>

\* variant: the DELETE statement has no WHERE clause
DeleteBudgetQuery_AllRows(r, err) ==
  /\ req[r].pc = "delete"
  /\ IF err # "none"
     THEN /\ req' = [req EXCEPT ![r] =
               Answered(@, sendErrorResponse("Failed to delete project", "DATABASE_ERROR", 500))]
          /\ UNCHANGED store
     ELSE /\ store' = <<>>
          /\ req' = [req EXCEPT ![r] =
               Answered(@, [status |-> 200,
                            body |-> [success |-> TRUE,
                                      message |-> "Project deleted successfully"]])]
  /\ UNCHANGED convVars

\* the DELETE of DELETE /project/budget/:id and its callback
DeleteBudgetQuery(r, err) ==
  /\ req[r].pc = "delete"
  /\ IF err # "none"
     THEN /\ req' = [req EXCEPT ![r] =
               Answered(@, sendErrorResponse("Failed to delete project", "DATABASE_ERROR", 500))]
          /\ UNCHANGED store
     ELSE /\ store' = DeleteById(store, ParseInt(req[r].id))
          /\ req' = [req EXCEPT ![r] =
               Answered(@, [status |-> 200,
                            body |-> [success |-> TRUE,
                                      message |-> "Project deleted successfully"]])]
  /\ UNCHANGED convVars

\* a call of convertCurrencyWithFallback made by a route handler: a new
\* invocation in call slot c, whose first request is issued at once
StartConversion(c, fromCurrency, toCurrency, amount) ==
  /\ pc[c] \in {"idle", "done"}
  /\ args' = [args EXCEPT ![c] = [fromCurrency |-> fromCurrency,
                                  toCurrency |-> toCurrency, amount |-> amount]]
  /\ retryCount' = [retryCount EXCEPT ![c] = 0]
  /\ attempts' = [attempts EXCEPT ![c] = 1]
  /\ timer' = [timer EXCEPT ![c] = 0]
  /\ fetch' = [fetch EXCEPT ![c] = Pending]
  /\ result' = [result EXCEPT ![c] = Pending]
  /\ delays' = [delays EXCEPT ![c] = <<>>]
  /\ hist' = [hist EXCEPT ![c] = <<>>]
  /\ aborted' = [aborted EXCEPT ![c] = "no"]
  /\ pc' = [pc EXCEPT ![c] = "request"]

\* POST /project/budget/currency
PostCurrency(r, body) ==
  /\ req[r].pc = "idle"
  /\ req' = [req EXCEPT ![r] =
       LET q == Received(r, "POST currency", [body |-> body])
           validation == validateCurrencyRequest(body)
       IN
       IF ~validation.isValid
       THEN Answered(q, sendErrorResponse(validation.error, "VALIDATION_ERROR", 400))
       ELSE Waiting(q, "find")]
  /\ UNCHANGED <<convVars, store>>

\* the callback of the SELECT of POST /project/budget/currency: with a
\* project found the conversion is started in call slot r
PostCurrencyRows(r, err) ==
  /\ req[r].pc = "find"
  /\ LET rows == SelectByNameYear(store, req[r].body.projectName, ParseInt(req[r].body.year)) IN
     IF err # "none"
     THEN /\ req' = [req EXCEPT ![r] =
               Answered(@, sendErrorResponse("Database error occurred", "DATABASE_ERROR", 500))]
          /\ UNCHANGED convVars
     ELSE IF Len(rows) = 0
     THEN /\ req' = [req EXCEPT ![r] =
               Answered(@, sendErrorResponse(
                             "Project \"" \o req[r].body.projectName \o "\" for year "
                               \o req[r].body.year \o " not found", "NOT_FOUND", 404))]
          /\ UNCHANGED convVars
     ELSE /\ StartConversion(r, rows[1].currency, req[r].body.currency, rows[1].finalBudgetUsd)
          /\ req' = [req EXCEPT ![r] = Waiting([project |-> rows[1]] @@ @, "convert")]
  /\ UNCHANGED store

\* the then/catch of POST /project/budget/currency
PostCurrencyDone(r) ==
  /\ req[r].pc = "convert"
  /\ pc[r] = "done"
  /\ req' = [req EXCEPT ![r] =
       IF result[r].state = "resolved"
       THEN Answered(@, [status |-> 200,
                         body |-> [success |-> TRUE,
                                   data |-> <<ConversionData(req[r].project,
                                                result[r].value.convertedAmount)>>]])
       ELSE Answered(@, sendErrorResponse("Currency conversion failed",
                                          "CONVERSION_ERROR", 500))]
  /\ UNCHANGED <<convVars, store>>

\* res.status(200).json({success: true, data: results}) once every project
\* has been counted; sent lists the responses the handler has asked res to
\* send (express refuses every one after the first: ERR_HTTP_HEADERS_SENT)
SendWhenComplete(sent, completedConversions, results) ==
  IF completedConversions = totalProjects
  THEN Append(sent, [status |-> 200, body |-> [success |-> TRUE, data |-> results]])
  ELSE sent

\* GET /api-conversion: the four queries are issued by the forEach
GetApiConversion(r) ==
  /\ req[r].pc = "idle"
  /\ req' = [req EXCEPT ![r] =
       [pc |-> "conversions", method |-> "GET /api-conversion", prev |-> req[r].prev,
        lookups |-> [i \in 1..totalProjects |-> [state |-> "query"]],
        results |-> <<>>, completedConversions |-> 0, sent |-> <<>>]]
  /\ UNCHANGED <<convVars, store>>

\* the callback of the query of project i of GET /api-conversion; a project
\* found is converted in a call slot c no conversion of the request occupies
ApiConversionRows(r, i, err, c) ==
  /\ req[r].pc = "conversions"
  /\ req[r].lookups[i].state = "query"
  /\ LET rows == SelectByNameYear(store, specificProjects[i].name, specificProjects[i].year)
         q == req[r]
     IN
     IF err # "none"
     THEN /\ req' = [req EXCEPT ![r] =
               [q EXCEPT !.lookups[i] = [state |-> "error"],
                         !.sent = Append(@, sendErrorResponse("Database error occurred",
                                                              "DATABASE_ERROR", 500))]]
          /\ UNCHANGED convVars
     ELSE IF Len(rows) = 0
     THEN /\ req' = [req EXCEPT ![r] =
               [q EXCEPT !.lookups[i] = [state |-> "not found"],
                         !.completedConversions = @ + 1,
                         !.sent = SendWhenComplete(@, q.completedConversions + 1, q.results)]]
          /\ UNCHANGED convVars
     ELSE /\ \A j \in 1..totalProjects :
               q.lookups[j].state = "converting" => q.lookups[j].call # c
          /\ StartConversion(c, rows[1].currency, "TTD", rows[1].finalBudgetUsd)
          /\ req' = [req EXCEPT ![r] =
               [q EXCEPT !.lookups[i] = [state |-> "converting", call |-> c,
                                         dbProject |-> rows[1]]]]
  /\ UNCHANGED store

\* the then/catch of the conversion of project i of GET /api-conversion
ApiConversionDone(r, i) ==
  /\ req[r].pc = "conversions"
  /\ req[r].lookups[i].state = "converting"
  /\ LET q == req[r]
         c == q.lookups[i].call
         results == IF result[c].state = "resolved"
                    THEN Append(q.results, ConversionData(q.lookups[i].dbProject,
                                                          result[c].value.convertedAmount))
                    ELSE q.results
     IN
     /\ pc[c] = "done"
     /\ req' = [req EXCEPT ![r] =
          [q EXCEPT !.lookups[i] = [state |-> IF result[c].state = "resolved"
                                              THEN "converted" ELSE "failed",
                                    dbProject |-> q.lookups[i].dbProject],
                    !.results = results,
                    !.completedConversions = @ + 1,
                    !.sent = SendWhenComplete(@, q.completedConversions + 1, results)]]
  /\ UNCHANGED <<convVars, store>>

\* the client has read the response and is free to send its next request
NextRequest(r) ==
  /\ req[r].pc = "done"
  /\ req' = [req EXCEPT ![r] =
       [pc |-> "idle",
        prev |-> [method |-> req[r].method,
                  id |-> IF "id" \in DOMAIN req[r] THEN req[r].id ELSE "",
                  status |-> req[r].res.status]]]
  /\ UNCHANGED <<convVars, store>>

Next ==
  \E c \in SingleCall :
    \/ \E f \in FromCodes, t \in ToCodes, a \in Amounts : Call(c, f, t, a)
    \/ \E data \in Bodies : ResponseEnd(c, data)
    \/ \E code \in ErrorCodes : RequestError(c, code)
    \/ TimerFire(c)
    \/ Settle(c)
    \/ Abort(c)

Spec == Init /\ [][Next]_vars

\* One call under the scheduling the runtime provides: every request sent ends
\* in a complete response or an error event, every timer set fires, and the
\* reactions of a settled promise run.
Fairness ==
  \A c \in SingleCall :
    /\ WF_vars(\/ \E data \in Bodies : ResponseEnd(c, data)
               \/ \E code \in ErrorCodes : RequestError(c, code))
    /\ WF_vars(TimerFire(c))
    /\ WF_vars(Settle(c))

SpecLive == Init /\ [][Next]_vars /\ Fairness

\* One call of the historical-rate variant.
NextHistorical ==
  \E c \in SingleCall :
    \/ \E a \in Amounts, f \in FromCodes, t \in ToCodes, d \in Dates, k \in ApiKeys :
         HistoricalCall(c, a, f, t, d, k)
    \/ \E data \in Bodies : HistoricalEnd(c, HistoricalBody(data))
    \/ \E code \in ErrorCodes : HistoricalError(c, code)

SpecHistorical == Init /\ [][NextHistorical]_vars

\* The project routes, for a client that sends one request at a time.
NextApi ==
  \E r \in SingleReq :
    \/ \E id \in UrlIds : GetBudget(r, id)
    \/ \E err \in DbErrors : GetBudgetRows(r, err)
    \/ \E body \in RequestBodies : PostBudget(r, body)
    \/ \E err \in DbErrors : PostBudgetCheck(r, err)
    \/ \E err \in DbErrors : PostBudgetInsert(r, err)
    \/ \E id \in UrlIds, body \in RequestBodies : PutBudget(r, id, body)
    \/ \E err \in DbErrors : PutBudgetCheck(r, err)
    \/ \E err \in DbErrors : PutBudgetConflict(r, err)
    \/ \E err \in DbErrors : updateProject(r, err)
    \/ \E id \in UrlIds : DeleteBudget(r, id)
    \/ \E err \in DbErrors : DeleteBudgetCheck(r, err)
    \/ \E err \in DbErrors : DeleteBudgetQuery(r, err)
    \/ NextRequest(r)

SpecApi == Init /\ [][NextApi]_vars

\* The currency route, for a client that sends one request at a time, with
\* the conversion its handler starts.
NextCurrency ==
  \/ \E r \in SingleReq :
       \/ \E body \in CurrencyBodies : PostCurrency(r, body)
       \/ \E err \in DbErrors : PostCurrencyRows(r, err)
       \/ PostCurrencyDone(r)
       \/ NextRequest(r)
  \/ \E c \in SingleCall :
       \/ \E data \in Bodies : ResponseEnd(c, data)
       \/ \E code \in ErrorCodes : RequestError(c, code)
       \/ TimerFire(c)
       \/ Settle(c)

SpecCurrency == Init /\ [][NextCurrency]_vars

\* Two calls in progress at once, in every interleaving of their requests,
\* responses, errors and timers; the inputs are narrowed to keep the product
\* of the two calls small.
ConcFrom == {"USD", "usd"}

ConcTo == {"TTD", "XYZ"}

ConcAmounts == {MaxAmount}

ConcBodies ==
  { [kind |-> "malformed"],
    [kind |-> "object",
     obj |-> [result |-> "success", conversion_rates |-> [TTD |-> MaxRate]]],
    [kind |-> "object",
     obj |-> [result |-> "error"] @@ ("error-type" :> "quota-reached")] }

ConcCodes == {"ECONNRESET", "ENOTFOUND"}

NextConc ==
  \E c \in Calls :
    \/ \E f \in ConcFrom, t \in ConcTo, a \in ConcAmounts : Call(c, f, t, a)
    \/ \E data \in ConcBodies : ResponseEnd(c, data)
    \/ \E code \in ConcCodes : RequestError(c, code)
    \/ TimerFire(c)
    \/ Settle(c)

SpecConc == Init /\ [][NextConc]_vars

\* One GET /api-conversion request with the conversions its handler starts,
\* in every order of the query callbacks, the provider's responses and the
\* timers.
NextConversion ==
  \/ \E r \in SingleReq :
       \/ GetApiConversion(r)
       \/ \E i \in 1..totalProjects, err \in DbErrors, c \in Calls :
            ApiConversionRows(r, i, err, c)
       \/ \E i \in 1..totalProjects : ApiConversionDone(r, i)
  \/ \E c \in Calls :
       \/ \E data \in ConcBodies : ResponseEnd(c, data)
       \/ \E code \in ConcCodes : RequestError(c, code)
       \/ TimerFire(c)
       \/ Settle(c)

SpecConversion == Init /\ [][NextConversion]_vars

\* Two POST /project/budget requests in progress at once, both for project
\* 2, which the table does not hold, in every interleaving of their existence
\* checks and inserts.
RaceBodies == {body \in ValidBodies : body.projectId = "2"}

NextPosts ==
  \E r \in Reqs :
    \/ \E body \in RaceBodies : PostBudget(r, body)
    \/ \E err \in DbErrors : PostBudgetCheck(r, err)
    \/ \E err \in DbErrors : PostBudgetInsert(r, err)

SpecPosts == Init /\ [][NextPosts]_vars

\* The two variants side by side: call 1 is a call of the current-rate
\* service, call 2 a call of the historical-rate variant, each with its own
\* requests to the provider.
NextPair ==
  \/ \E f \in ConcFrom, t \in ConcTo, a \in ConcAmounts : Call(1, f, t, a)
  \/ \E data \in ConcBodies : ResponseEnd(1, data)
  \/ \E code \in ConcCodes : RequestError(1, code)
  \/ TimerFire(1)
  \/ Settle(1)
  \/ \E f \in ConcFrom, t \in ConcTo, a \in ConcAmounts, d \in Dates, k \in ApiKeys :
       HistoricalCall(2, a, f, t, d, k)
  \/ \E data \in ConcBodies : HistoricalEnd(2, HistoricalBody(data))
  \/ \E code \in ConcCodes : HistoricalError(2, code)

SpecPair == Init /\ [][NextPair]_vars

\* ------------------------------------------------------------------------
\* Vocabulary of the properties

Settled(c) == pc[c] = "done"

GaveUp(c) == pc[c] \in {"fetched", "done"} /\ fetch[c].state = "rejected"

LastEvent(c) == hist[c][Len(hist[c])]

\* the pair of the call is listed in the fallback table
PairListed(c) ==
  /\ args[c].fromCurrency \in DOMAIN FALLBACK_RATES
  /\ args[c].toCurrency \in DOMAIN FALLBACK_RATES[args[c].fromCurrency]

IsSuccessEnd(e) ==
  e.type = "end" /\ e.data.kind = "object" /\ e.data.obj.result = "success"

\* a success response that carries a rate for the currency
SuccessWithRate(e, toCurrency) ==
  IsSuccessEnd(e) /\ toCurrency \in DOMAIN e.data.obj.conversion_rates

\* a success response without a rate for the currency
SuccessWithoutRate(e, toCurrency) ==
  IsSuccessEnd(e) /\ toCurrency \notin DOMAIN e.data.obj.conversion_rates

\* a well-formed response that reports a non-success status
ProviderFailure(e) ==
  e.type = "end" /\ e.data.kind = "object" /\ e.data.obj.result # "success"

\* an empty body, or a body that is not the JSON of an object
BadBody(e) == e.type = "end" /\ e.data.kind \in {"empty", "malformed", "null"}

AllTransportErrors(c) == \A i \in 1 .. Len(hist[c]) : hist[c][i].type = "error"

AllResetsOrTimeouts(c) ==
  \A i \in 1 .. Len(hist[c]) :
    hist[c][i].type = "error" /\ hist[c][i].code \in {"ECONNRESET", "ETIMEDOUT"}

NonDecreasing(s) == \A i \in 1 .. Len(s) - 1 : s[i] <= s[i + 1]

\* ------------------------------------------------------------------------
\* C1: a call whose attempt is answered by a success response that carries a
\* rate for the target currency resolves with that rate, with
\* convertedAmount = amount * rate and without the fallback flag.
C1_LiveRateUsed ==
  \A c \in Calls :
    (Settled(c) /\ SuccessWithRate(LastEvent(c), args[c].toCurrency)) =>
      LET rate == LastEvent(c).data.obj.conversion_rates[args[c].toCurrency] IN
      /\ result[c].state = "resolved"
      /\ result[c].value.success
      /\ result[c].value.rate = rate
      /\ result[c].value.convertedAmount = args[c].amount * rate
      /\ "fallback" \notin DOMAIN result[c].value

\* a listed pair, converted at a live rate other than the tabulated one, on a
\* retry attempt
C1_Witness ==
  /\ Settled(1) /\ PairListed(1) /\ args[1].amount = 2 /\ Len(hist[1]) = 2
  /\ SuccessWithRate(LastEvent(1), args[1].toCurrency)
  /\ result[1].state = "resolved" /\ result[1].value.rate = 2
  /\ result[1].value.convertedAmount = 4

\* C2: when every attempt of a call fails with a transport error and the pair
\* is listed in FALLBACK_RATES, the call resolves with fallback = true, the
\* tabulated rate and convertedAmount = amount * that rate.
C2_FallbackOnTransportFailure ==
  \A c \in Calls :
    (Settled(c) /\ AllTransportErrors(c) /\ PairListed(c)) =>
      LET rate == FALLBACK_RATES[args[c].fromCurrency][args[c].toCurrency] IN
      /\ result[c].state = "resolved"
      /\ result[c].value.success
      /\ "fallback" \in DOMAIN result[c].value /\ result[c].value.fallback
      /\ result[c].value.rate = rate
      /\ result[c].value.convertedAmount = args[c].amount * rate

C2_Witness ==
  /\ Settled(1) /\ AllTransportErrors(1) /\ PairListed(1)
  /\ Len(hist[1]) = MAX_RETRIES + 1 /\ args[1].amount = 2
  /\ result[1].state = "resolved" /\ result[1].value.convertedAmount = 1350

\* C3 as stated: a fetch whose every attempt fails with a transport error of
\* any kind gives up after exactly MAX_RETRIES + 1 attempts, with
\* non-decreasing delays.
C3_AnyTransportErrorRetried ==
  \A c \in Calls :
    (GaveUp(c) /\ AllTransportErrors(c)) =>
      attempts[c] = MAX_RETRIES + 1 /\ NonDecreasing(delays[c])

\* C3 amended: a fetch whose every attempt fails with a connection reset or a
\* timeout (ECONNRESET, ETIMEDOUT) gives up after exactly MAX_RETRIES + 1 = 4
\* attempts, with non-decreasing delays between them.
C3_ResetOrTimeoutRetried ==
  \A c \in Calls :
    /\ (GaveUp(c) /\ AllResetsOrTimeouts(c)) =>
         /\ attempts[c] = 4 /\ attempts[c] = MAX_RETRIES + 1
         /\ Len(delays[c]) = MAX_RETRIES /\ NonDecreasing(delays[c])
    /\ AllResetsOrTimeouts(c) => NonDecreasing(delays[c])

C3_Witness ==
  /\ GaveUp(1) /\ AllResetsOrTimeouts(1) /\ attempts[1] = 4
  /\ hist[1][1].code = "ECONNRESET" /\ hist[1][4].code = "ETIMEDOUT"
  /\ delays[1] = <<1000, 2000, 3000>>

\* C4: a provider-reported failure, a success response without the target
\* currency, or a malformed or empty body ends the fetch where it occurs: no
\* retry timer is scheduled for it and no request follows it, so a call whose
\* first attempt ends this way makes exactly one attempt.
C4_ApplicationFailureTerminal ==
  \A c \in Calls : \A i \in 1 .. Len(hist[c]) :
    ( \/ ProviderFailure(hist[c][i])
      \/ SuccessWithoutRate(hist[c][i], args[c].toCurrency)
      \/ BadBody(hist[c][i]) ) =>
      /\ i = Len(hist[c])
      /\ pc[c] \in {"fetched", "done"}
      /\ fetch[c].state = "rejected"
      /\ timer[c] = 0
      /\ attempts[c] = i
      /\ Len(delays[c]) = i - 1
      /\ (i = 1 => attempts[c] = 1 /\ delays[c] = <<>>)

C4_Witness ==
  /\ Settled(1) /\ Len(hist[1]) = 1 /\ attempts[1] = 1 /\ delays[1] = <<>>
  /\ BadBody(hist[1][1]) /\ hist[1][1].data.kind = "malformed"
  /\ result[1].state = "rejected"

\* C5: when the provider answers with a success response without the target
\* currency and the pair is not listed in FALLBACK_RATES, the call rejects
\* with errorType CURRENCY_NOT_FOUND and yields no conversion result.
C5_CurrencyNotFound ==
  \A c \in Calls :
    (Settled(c) /\ SuccessWithoutRate(LastEvent(c), args[c].toCurrency)
       /\ ~PairListed(c)) =>
      /\ result[c].state = "rejected"
      /\ ~result[c].value.success
      /\ result[c].value.errorType = "CURRENCY_NOT_FOUND"

C5_Witness ==
  /\ Settled(1) /\ args[1].fromCurrency = "USD" /\ args[1].toCurrency = "XYZ"
  /\ SuccessWithoutRate(LastEvent(1), "XYZ")
  /\ result[1].state = "rejected"
  /\ result[1].value.errorType = "CURRENCY_NOT_FOUND"

\* ------------------------------------------------------------------------
ErrorTypes == {"CURRENCY_NOT_FOUND", "API_ERROR", "PARSE_ERROR", "NETWORK_ERROR"}

\* the classification the kind of the event calls for
ClassOf(e, toCurrency) ==
  IF e.type = "error" THEN "NETWORK_ERROR"
  ELSE IF BadBody(e) THEN "PARSE_ERROR"
  ELSE IF ProviderFailure(e) THEN "API_ERROR"
  ELSE IF SuccessWithoutRate(e, toCurrency) THEN "CURRENCY_NOT_FOUND"
  ELSE "none"

\* C6: on a fallback miss the call rejects with exactly the error the fetcher
\* produced, classification and detail fields included, whatever the kind of
\* the fetcher's failure.
C6_OriginalErrorSurfaced ==
  \A c \in Calls :
    (Settled(c) /\ fetch[c].state = "rejected" /\ ~PairListed(c)) =>
      /\ result[c].state = "rejected"
      /\ result[c].value = fetch[c].value
      /\ DOMAIN result[c].value = DOMAIN fetch[c].value
      /\ result[c].value.errorType \in ErrorTypes
      /\ result[c].value.errorType = ClassOf(LastEvent(c), args[c].toCurrency)

\* a network error after two retries, surfaced with its retries field
C6_Witness ==
  /\ Settled(1) /\ ~PairListed(1) /\ fetch[1].state = "rejected"
  /\ fetch[1].value.errorType = "NETWORK_ERROR" /\ fetch[1].value.retries = 2
  /\ result[1].state = "rejected" /\ result[1].value.retries = 2

\* C7: for a pair listed in FALLBACK_RATES the call never rejects: whatever
\* the kind of the fetcher's failure, it resolves with the tabulated rate and
\* fallback = true.
C7_ListedPairNeverRejects ==
  \A c \in Calls :
    (Settled(c) /\ PairListed(c)) =>
      /\ result[c].state = "resolved"
      /\ fetch[c].state = "rejected" =>
           /\ ClassOf(LastEvent(c), args[c].toCurrency) \in ErrorTypes
           /\ "fallback" \in DOMAIN result[c].value /\ result[c].value.fallback
           /\ result[c].value.rate
                = FALLBACK_RATES[args[c].fromCurrency][args[c].toCurrency]

\* a provider-reported failure answered from the table
C7_Witness ==
  /\ Settled(1) /\ PairListed(1) /\ ProviderFailure(LastEvent(1))
  /\ fetch[1].state = "rejected" /\ fetch[1].value.errorType = "API_ERROR"
  /\ result[1].state = "resolved" /\ result[1].value.fallback
  /\ result[1].value.rate = 675

\* C8: a fetch that gives up on a transport failure rejects with errorType
\* NETWORK_ERROR and a retries field equal to the number of retries made for
\* the call; after the retries are exhausted this is MAX_RETRIES.
C8_RetriesReported ==
  \A c \in Calls :
    (GaveUp(c) /\ LastEvent(c).type = "error") =>
      /\ fetch[c].value.errorType = "NETWORK_ERROR"
      /\ "retries" \in DOMAIN fetch[c].value
      /\ fetch[c].value.retries = attempts[c] - 1
      /\ fetch[c].value.retries = Len(delays[c])
      /\ AllResetsOrTimeouts(c) => fetch[c].value.retries = MAX_RETRIES

\* a call that gives up on a refused connection after one retry
C8_Witness ==
  /\ GaveUp(1) /\ attempts[1] = 2 /\ LastEvent(1).type = "error"
  /\ LastEvent(1).code = "ECONNREFUSED" /\ fetch[1].value.retries = 1

\* C9: the delay scheduled before the k-th retry of a call is RETRY_DELAY * k
\* (1000, 2000, 3000 ms for k = 1, 2, 3), and the first attempt is issued
\* with no delay.
C9_LinearDelay ==
  \A c \in Calls :
    /\ Len(delays[c]) <= MAX_RETRIES
    /\ \A k \in 1 .. Len(delays[c]) : delays[c][k] = RETRY_DELAY * k
    /\ \A k \in 1 .. Len(delays[c]) : delays[c][k] = <<1000, 2000, 3000>>[k]
    /\ pc[c] = "timer" => timer[c] = RETRY_DELAY * attempts[c]
    /\ pc[c] # "idle" => attempts[c] >= 1
    /\ (pc[c] = "request" /\ attempts[c] = 1) => delays[c] = <<>>

C9_Witness == pc[1] = "timer" /\ timer[1] = 3000 /\ delays[1] = <<1000, 2000, 3000>>

\* C10: when a well-formed response reports a non-success status the fetch
\* rejects with errorType API_ERROR, and the error carries the identifier the
\* provider put in its error-type field.
C10_ProviderErrorCarried ==
  \A c \in Calls :
    (pc[c] \in {"fetched", "done"} /\ ProviderFailure(LastEvent(c))) =>
      LET response == LastEvent(c).data.obj IN
      /\ fetch[c].state = "rejected"
      /\ fetch[c].value.errorType = "API_ERROR"
      /\ \A k \in {"error-type", "error_type"} \cap DOMAIN response :
           /\ "details" \in DOMAIN fetch[c].value
           /\ k \in DOMAIN fetch[c].value.details
           /\ fetch[c].value.details[k] = response[k]

C10_Witness ==
  /\ pc[1] = "fetched" /\ ProviderFailure(LastEvent(1))
  /\ "error-type" \in DOMAIN LastEvent(1).data.obj
  /\ fetch[1].state = "rejected" /\ fetch[1].value.errorType = "API_ERROR"
  /\ fetch[1].value.details["error-type"] = "quota-reached"

\* ------------------------------------------------------------------------
\* C11: a response body that is empty or is not valid JSON makes the fetch
\* reject with errorType PARSE_ERROR, never with another classification and
\* never with a result.
C11_ParseErrorOnBadBody ==
  \A c \in Calls :
    (pc[c] \in {"fetched", "done"} /\ LastEvent(c).type = "end"
       /\ LastEvent(c).data.kind \in {"empty", "malformed"}) =>
      /\ fetch[c].state = "rejected"
      /\ ~fetch[c].value.success
      /\ fetch[c].value.errorType = "PARSE_ERROR"

\* an empty body on a retry attempt
C11_Witness ==
  /\ pc[1] = "fetched" /\ Len(hist[1]) = 2 /\ LastEvent(1).type = "end"
  /\ LastEvent(1).data.kind = "empty"
  /\ fetch[1].state = "rejected" /\ fetch[1].value.errorType = "PARSE_ERROR"

\* the entries of the fallback table, as (source, target, rate)
ListedRates ==
  { <<"USD", "TTD", 675>>, <<"USD", "EUR", 85>>, <<"USD", "GBP", 73>>,
    <<"EUR", "TTD", 794>>, <<"EUR", "USD", 118>>, <<"EUR", "GBP", 86>>,
    <<"GBP", "TTD", 923>>, <<"GBP", "USD", 137>>, <<"GBP", "EUR", 116>> }

\* C12: the fallback lookup hits only for the ordered pairs listed in
\* FALLBACK_RATES: a pair that is not listed misses even when its inverse is
\* listed or when source equals target, and on a hit the rate is the one
\* stored for that ordered pair.
C12_PairExactLookup ==
  \A c \in Calls :
    (Settled(c) /\ fetch[c].state = "rejected") =>
      LET from == args[c].fromCurrency
          to == args[c].toCurrency
          listed == \E t \in ListedRates : t[1] = from /\ t[2] = to
      IN /\ result[c].state = "resolved" <=> listed
         /\ result[c].state = "resolved" =>
              /\ "fallback" \in DOMAIN result[c].value
              /\ <<from, to, result[c].value.rate>> \in ListedRates
         /\ from = to => result[c].state = "rejected"
         /\ ~listed => result[c] = fetch[c]

\* TTD -> USD misses although USD -> TTD is listed
C12_Witness ==
  /\ Settled(1) /\ args[1].fromCurrency = "TTD" /\ args[1].toCurrency = "USD"
  /\ fetch[1].state = "rejected" /\ result[1].state = "rejected"
  /\ <<"USD", "TTD", 675>> \in ListedRates

\* C13: once the caller's request has been aborted while a call was waiting
\* between attempts, no further attempt is issued for that call.
C13_NoAttemptAfterAbort ==
  [][\A c \in Calls : aborted[c] = "timer" => attempts'[c] = attempts[c]]_vars

\* ------------------------------------------------------------------------
\* what one call holds: its position, arguments, counter, timer and promises
CallState(c) ==
  <<pc[c], args[c], retryCount[c], timer[c], fetch[c], result[c], attempts[c],
    delays[c], hist[c]>>

\* the i-th event of the history was answered by a retry
Retried(h, i) ==
  /\ h[i].type = "error" /\ h[i].code \in {"ECONNRESET", "ETIMEDOUT"}
  /\ i <= MAX_RETRIES

\* what the arguments and the events of a call alone make of it
OwnOutcome(c) ==
  LET h == hist[c]
      n == Len(h)
      a == args[c]
  IN /\ pc[c] # "idle" =>
          /\ attempts[c] = n + (IF pc[c] = "request" THEN 1 ELSE 0)
          /\ retryCount[c] = attempts[c] - 1
          /\ \A i \in 1 .. n - 1 : Retried(h, i)
          /\ Len(delays[c]) = Cardinality({i \in 1 .. n : Retried(h, i)})
     /\ (n = 0 \/ (n > 0 /\ Retried(h, n))) =>
          /\ fetch[c] = Pending /\ result[c] = Pending
          /\ pc[c] \in {"idle", "request", "timer"}
     /\ (n > 0 /\ ~Retried(h, n)) =>
          /\ pc[c] \in {"fetched", "done"}
          /\ fetch[c] = IF h[n].type = "end"
                        THEN OnEnd(a.fromCurrency, a.toCurrency, a.amount, h[n].data)
                        ELSE Rejected(NetworkError(n - 1, h[n].code))
          /\ result[c] = IF pc[c] = "fetched" THEN Pending
                         ELSE IF fetch[c].state = "resolved" THEN fetch[c]
                         ELSE OnCatch(a.fromCurrency, a.toCurrency, a.amount,
                                      fetch[c].value)

\* C14: concurrent calls do not interfere: in every interleaving, the outcome
\* and the retry count of each call are determined by its own arguments and
\* the responses to its own attempts, a step of one call changes nothing of
\* another call, and nothing shared is written.
C14_NoInterference ==
  /\ [](\A c \in Calls : OwnOutcome(c))
  /\ [][ /\ \A c, d \in Calls :
              (c # d /\ CallState(c)' # CallState(c)) => CallState(d)' = CallState(d)
         /\ store' = store /\ req' = req ]_vars

\* the first call has been retried twice and given up while the second, begun
\* with other arguments, has had one retry and is waiting for its response
C14_Witness ==
  /\ pc[1] = "done" /\ result[1].state = "rejected"
  /\ result[1].value.errorType = "NETWORK_ERROR" /\ result[1].value.retries = 2
  /\ pc[2] = "request" /\ retryCount[2] = 1 /\ args[1] # args[2]

\* C15: two calls with the same arguments whose attempts are answered the
\* same way end with the same result: the same conversion result or the same
\* error.
C15_SameInputsSameResult ==
  \A c, d \in Calls :
    (Settled(c) /\ Settled(d) /\ args[c] = args[d] /\ hist[c] = hist[d]) =>
      result[c] = result[d]

C15_Witness ==
  /\ Settled(1) /\ Settled(2) /\ args[1] = args[2] /\ hist[1] = hist[2]
  /\ Len(hist[1]) = 2 /\ result[1].state = "rejected"
  /\ result[1].value.errorType = "NETWORK_ERROR"
  /\ result[1].value.retries = 1 /\ result[2] = result[1]

\* what the caller sees of a settled call, the echoed codes left aside
Seen(c) ==
  IF result[c].state = "resolved"
  THEN <<"resolved", result[c].value.rate, result[c].value.convertedAmount,
         "fallback" \in DOMAIN result[c].value>>
  ELSE <<"rejected", result[c].value.errorType>>

\* C16: currency codes are treated case-insensitively: two calls whose codes
\* differ only in case and whose attempts are answered the same way end with
\* the same outcome, on the live path and on the fallback path.
C16_CaseInsensitive ==
  \A c, d \in Calls :
    ( /\ Settled(c) /\ Settled(d) /\ hist[c] = hist[d]
      /\ ToUpperCase(args[c].fromCurrency) = ToUpperCase(args[d].fromCurrency)
      /\ ToUpperCase(args[c].toCurrency) = ToUpperCase(args[d].toCurrency)
      /\ args[c].amount = args[d].amount ) =>
      Seen(c) = Seen(d)

\* ------------------------------------------------------------------------
\* C17: every call eventually settles, provided each attempt ends in a
\* response or an error event and every retry timer fires; the retry counter
\* bounds the attempts of a call by MAX_RETRIES + 1.
C17_EventuallySettles ==
  /\ \A c \in Calls : (pc[c] # "idle") ~> (pc[c] = "done" /\ result[c] # Pending)
  /\ [](\A c \in Calls : attempts[c] <= MAX_RETRIES + 1 /\ retryCount[c] <= MAX_RETRIES)

\* a call settled after the last attempt the counter allows
C17_Witness ==
  /\ pc[1] = "done" /\ attempts[1] = MAX_RETRIES + 1 /\ result[1].state = "rejected"
  /\ LastEvent(1).type = "error" /\ LastEvent(1).code = "ETIMEDOUT"

\* ------------------------------------------------------------------------
\* Vocabulary of the properties of the project routes

\* the step answers request r, which is a request to the given route
Answers(r, method) ==
  /\ req[r].pc # "done"
  /\ req'[r].pc = "done"
  /\ req'[r].method = method

\* the responses of handleWriteError: a query of the request has failed
WriteErrorResponses == {handleWriteError(code) : code \in DbErrors \ {"none"}}

\* C18: POST /project/budget with a complete, valid body answers 201 and
\* inserts the project exactly when no project with that projectId is stored;
\* when one is stored it answers 409 and leaves the stored projects
\* unchanged; a body that fails the validation, a missing required field
\* included, is answered 400 by the step that received it, before any query.
\* The store is taken to answer its queries: a failed query is answered by
\* handleWriteError.
C18_PostCreatesOrConflicts ==
  [][\A r \in Reqs :
       Answers(r, "POST") =>
         LET body == req'[r].body
             res == req'[r].res
             validation == validateAndSanitizeProjectData(body)
         IN
         IF ~validation.isValid
         THEN req[r].pc = "idle" /\ res.status = 400 /\ store' = store
         ELSE \/ res \in WriteErrorResponses
              \/ /\ SelectById(store, validation.sanitizedData.projectId) = <<>>
                 /\ res.status = 201
                 /\ store' = Append(store, validation.sanitizedData)
              \/ /\ SelectById(store, validation.sanitizedData.projectId) # <<>>
                 /\ res.status = 409
                 /\ store' = store ]_vars

\* a creation answered 201 right after a creation answered 409
C18_Witness ==
  /\ req[1].pc = "done" /\ req[1].method = "POST"
  /\ req[1].res.status = 201
  /\ req[1].body.projectId = "2"
  /\ SelectById(store, 2) = <<req[1].res.body>>
  /\ req[1].prev.method = "POST" /\ req[1].prev.status = 409

\* C19: PUT /project/budget/:id with a numeric id given only in the URL and a
\* body holding the ten budget fields answers 200 with success when the
\* project exists and 404 when it does not (a failed query aside, which is
\* answered 500).
C19_TenFieldUpdate ==
  [][\A r \in Reqs :
       ( /\ Answers(r, "PUT")
         /\ validateProjectId(req'[r].id)
         /\ DOMAIN req'[r].body = DOMAIN TenFieldBody ) =>
           LET res == req'[r].res IN
           \/ res.status = 500
           \/ /\ SelectById(store, ParseInt(req'[r].id)) # <<>>
              /\ res.status = 200
              /\ "success" \in DOMAIN res.body /\ res.body.success
           \/ /\ SelectById(store, ParseInt(req'[r].id)) = <<>>
              /\ res.status = 404 ]_vars

\* C20: DELETE /project/budget/:id answers 200 and removes exactly the
\* project with that id when it exists: every other stored project is
\* unchanged and a GET of that id that follows answers 404. When no such
\* project exists it answers 404 and leaves the store unchanged. (A failed
\* query is answered 500.)
C20_DeleteRemovesExactlyOne ==
  /\ [][\A r \in Reqs :
          ( Answers(r, "DELETE") /\ validateProjectId(req'[r].id) ) =>
            LET id == ParseInt(req'[r].id)
                res == req'[r].res
            IN
            \/ res.status = 500
            \/ /\ SelectById(store, id) # <<>>
               /\ res.status = 200 /\ res.body.success
               /\ SelectById(store', id) = <<>>
               /\ store' = SelectSeq(store, LAMBDA p : p.projectId # id)
            \/ /\ SelectById(store, id) = <<>>
               /\ res.status = 404
               /\ store' = store ]_vars
  /\ [](\A r \in Reqs :
          ( /\ req[r].pc = "done" /\ req[r].method = "GET"
            /\ req[r].prev.method = "DELETE" /\ req[r].prev.status = 200
            /\ validateProjectId(req[r].id)
            /\ ParseInt(req[r].id) = ParseInt(req[r].prev.id) ) =>
              req[r].res.status \in {404, 500})

\* project 1 deleted while project 2 stays, and the GET of project 1 that
\* follows answered 404
C20_Witness ==
  /\ req[1].pc = "done" /\ req[1].method = "GET" /\ req[1].id = "1"
  /\ req[1].res.status = 404
  /\ req[1].prev = [method |-> "DELETE", id |-> "1", status |-> 200]
  /\ SelectById(store, 2) # <<>>

\* the strings of the model that are a number from end to end
NumericStrings == {"1", "2", "100", "1800", "2000", "2001", "2024"}

\* C21: GET, PUT and DELETE on /project/budget/:id answer 400 for an id that
\* is not numeric, in the step that received the request and so before any
\* query; GET with a numeric id answers 404 when no project has that id and
\* otherwise 200 with the fields of the stored project with exactly that id
\* (a failed query aside, which is answered 500).
C21_IdValidated ==
  [][\A r \in Reqs :
       /\ \A method \in {"GET", "PUT", "DELETE"} :
            ( Answers(r, method) /\ req'[r].id \notin NumericStrings ) =>
              /\ req[r].pc = "idle"
              /\ req'[r].res.status = 400
              /\ store' = store
       /\ ( Answers(r, "GET") /\ req'[r].id \in NumericStrings ) =>
            LET rows == SelectById(store, ParseInt(req'[r].id))
                res == req'[r].res
            IN
            \/ res.status = 500
            \/ rows = <<>> /\ res.status = 404
            \/ /\ rows # <<>> /\ res.status = 200
               /\ res.body = rows[1]
               /\ res.body.projectId = ParseInt(req'[r].id) ]_vars

\* C22: a successful POST /project/budget/currency for an existing
\* (projectName, year) answers 200 with success true and a data array whose
\* first element carries the converted amount under the key 'finalBudget'
\* followed by the requested currency code.
C22_ConvertedAmountKey ==
  \A r \in Reqs :
    ( /\ req[r].pc = "done" /\ req[r].method = "POST currency"
      /\ req[r].res.status = 200 ) =>
        LET key == "finalBudget" \o req[r].body.currency
            data == req[r].res.body.data
        IN
        /\ req[r].res.body.success
        /\ Len(data) >= 1
        /\ key \in DOMAIN data[1]
        /\ data[1][key] = result[r].value.convertedAmount

\* the call in slot c is a finished call of the historical-rate variant whose
\* target currency has a mock rate
MockedCall(c) ==
  /\ pc[c] = "done" /\ "date" \in DOMAIN args[c]
  /\ HasMock(args[c].toCurrency)

\* the call resolved with the mock rate without any request
MockRateUsed(c) ==
  /\ result[c] = Resolved(MockResult(args[c].amount, args[c].fromCurrency,
                                     args[c].toCurrency, args[c].date))
  /\ result[c].value.convertedAmount = args[c].amount * mockRates[args[c].toCurrency]
  /\ attempts[c] = 0 /\ hist[c] = <<>>

\* C23 as stated: in the historical-rate variant, whenever a mock rate exists
\* for the target currency the call resolves with it and issues no request,
\* for every source currency and date.
C23_MockRatePreferred ==
  \A c \in Calls : MockedCall(c) => MockRateUsed(c)

\* C23 amended: the same, for a call made with an API key configured; without
\* a key the call is rejected before the mock rates are looked at.
C23_MockRatePreferredWithKey ==
  \A c \in Calls :
    /\ ( MockedCall(c) /\ args[c].apiKey # "" ) => MockRateUsed(c)
    /\ ( MockedCall(c) /\ args[c].apiKey = "" ) =>
         /\ result[c] = Rejected(Error("Currency API key not configured", ""))
         /\ attempts[c] = 0

C23_Witness ==
  /\ MockedCall(1) /\ args[1].apiKey # "" /\ args[1].fromCurrency = "TTD"
  /\ args[1].amount = MaxAmount
  /\ result[1].state = "resolved" /\ result[1].value.rate = mockRates["TTD"]
  /\ attempts[1] = 0

\* the outcome class of a settled promise of the current-rate fetcher
CurrentOutcome(p) ==
  IF p.state = "resolved" THEN "Success"
  ELSE CASE p.value.errorType = "CURRENCY_NOT_FOUND" -> "CurrencyNotFound"
         [] p.value.errorType = "API_ERROR" -> "ProviderError"
         [] p.value.errorType = "PARSE_ERROR" -> "ParseError"
         [] p.value.errorType = "NETWORK_ERROR" -> "NetworkError"

\* the outcome class of a settled promise of the historical-rate fetcher,
\* read from the message of its Error
HistoricalOutcome(p) ==
  IF p.state = "resolved" THEN "Success"
  ELSE LET message == p.value.message[1] IN
       CASE message = "Currency API key not configured" -> "ConfigurationError"
         [] message = "Conversion rate not available for" -> "CurrencyNotFound"
         [] message \in {"Empty response from currency API",
                         "Invalid JSON or unexpected structure from currency API"}
              -> "ParseError"
         [] message = "Currency API request failed" -> "NetworkError"
         [] OTHER -> "ProviderError"

\* the event as the historical-rate fetcher receives it
HistoricalEvent(e) ==
  IF e.type = "end" THEN [type |-> "end", data |-> HistoricalBody(e.data)] ELSE e

\* calls 1 and 2 were given the same conversion and a provider that behaves
\* the same way at every attempt of either call
SameProviderBehaviour ==
  /\ pc[1] \in {"fetched", "done"} /\ "date" \notin DOMAIN args[1]
  /\ pc[2] = "done" /\ "date" \in DOMAIN args[2] /\ args[2].apiKey # ""
  /\ args[1].fromCurrency = args[2].fromCurrency
  /\ args[1].toCurrency = args[2].toCurrency
  /\ args[1].amount = args[2].amount
  /\ \A i \in 1..Len(hist[1]) :
       /\ hist[1][i] = hist[1][1]
       /\ \A j \in 1..Len(hist[2]) : hist[2][j] = HistoricalEvent(hist[1][i])

\* C24: driven by the same provider behaviour, the historical-rate fetcher
\* and the current-rate fetcher make the same number of attempts and end in
\* the same outcome class.
C24_SameContract ==
  SameProviderBehaviour =>
    /\ attempts[1] = attempts[2]
    /\ CurrentOutcome(fetch[1]) = HistoricalOutcome(result[2])

\* C25: the fallback table is consulted only after the fetcher has finally
\* rejected: while a request is in flight or a retry timer is pending neither
\* promise is settled, a result flagged as fallback implies a rejected fetch
\* that had no retry left to make, and no attempt follows the settlement of
\* the fetch. A retry that succeeds after transport failures resolves the
\* call with the live rate and no fallback flag.
C25_FallbackAfterFinalRejection ==
  /\ [](\A c \in Calls :
          /\ pc[c] \in {"request", "timer"} =>
               fetch[c] = Pending /\ result[c] = Pending
          /\ ( result[c].state = "resolved" /\ "fallback" \in DOMAIN result[c].value ) =>
               /\ pc[c] = "done" /\ timer[c] = 0
               /\ fetch[c].state = "rejected"
               /\ LastEvent(c).type = "error" =>
                    ~ShouldRetry(retryCount[c], LastEvent(c).code)
          /\ ( pc[c] = "done" /\ fetch[c].state = "resolved" ) =>
               /\ result[c] = fetch[c]
               /\ "fallback" \notin DOMAIN result[c].value
               /\ result[c].value.rate
                    = LastEvent(c).data.obj.conversion_rates[args[c].toCurrency])
  /\ [][\A c \in Calls :
          fetch[c] # Pending => attempts'[c] = attempts[c] /\ fetch'[c] = fetch[c]]_vars

\* a listed pair whose third attempt succeeds after two connection resets
C25_Witness ==
  /\ pc[1] = "done" /\ PairListed(1)
  /\ Len(hist[1]) = 3
  /\ hist[1][1].type = "error" /\ hist[1][2].type = "error"
  /\ fetch[1].state = "resolved"
  /\ result[1].state = "resolved" /\ "fallback" \notin DOMAIN result[1].value
  /\ result[1].value.rate # FALLBACK_RATES[args[1].fromCurrency][args[1].toCurrency]

\* C26: the amount returned by POST /project/budget/currency is the
\* project's finalBudgetUsd converted from USD: the conversion is asked from
\* USD to the requested currency and the rate applied is a USD rate, whatever
\* currency code the project record stores.
C26_ConvertedFromUsd ==
  \A r \in Reqs :
    ( /\ req[r].pc \in {"convert", "done"} /\ req[r].method = "POST currency"
      /\ "project" \in DOMAIN req[r] ) =>
        /\ args[r].fromCurrency = "USD"
        /\ args[r].toCurrency = req[r].body.currency
        /\ args[r].amount = req[r].project.finalBudgetUsd
        /\ ( req[r].pc = "done" /\ req[r].res.status = 200 ) =>
             /\ result[r].value.fromCurrency = "USD"
             /\ req[r].res.body.data[1].finalBudgetTtd
                  = req[r].project.finalBudgetUsd * result[r].value.rate
             /\ "fallback" \in DOMAIN result[r].value =>
                  result[r].value.rate = FALLBACK_RATES["USD"][req[r].body.currency]

\* project i of the GET /api-conversion request q has completed
Completed(q, i) == q.lookups[i].state \in {"error", "not found", "converted", "failed"}

\* C27: GET /api-conversion sends exactly one response per request, for every
\* combination of per-project outcomes and every order of the callbacks: its
\* handler never asks for a second response, and has asked for one once the
\* four projects have completed. When no store query errors, the response is
\* sent only after all four have completed and lists exactly the projects
\* found and converted, each once.
C27_OneResponse ==
  \A r \in Reqs :
    req[r].pc = "conversions" =>
      LET q == req[r]
          converted == {i \in 1..totalProjects : q.lookups[i].state = "converted"}
      IN
      /\ Len(q.sent) <= 1
      /\ ( \A i \in 1..totalProjects : Completed(q, i) ) => Len(q.sent) = 1
      /\ ( /\ \A i \in 1..totalProjects : q.lookups[i].state # "error"
           /\ Len(q.sent) = 1 ) =>
             /\ \A i \in 1..totalProjects : Completed(q, i)
             /\ q.sent[1].status = 200 /\ q.sent[1].body.success
             /\ Len(q.sent[1].body.data) = Cardinality(converted)
             /\ \A i \in converted :
                  \E k \in 1..Len(q.sent[1].body.data) :
                    /\ q.sent[1].body.data[k].projectName = specificProjects[i].name
                    /\ q.sent[1].body.data[k].year = specificProjects[i].year

\* C28: of two concurrent POST /project/budget requests carrying the same
\* previously unused projectId, in every interleaving of their existence
\* checks and inserts at most one is answered 201 and at most one project
\* with that id is stored; the other is answered 409.
C28_OneCreationWins ==
  \A r1, r2 \in Reqs :
    ( /\ r1 # r2
      /\ req[r1].pc = "done" /\ req[r1].method = "POST"
      /\ req[r2].pc = "done" /\ req[r2].method = "POST"
      /\ ParseInt(req[r1].body.projectId) = ParseInt(req[r2].body.projectId)
      /\ SelectById(SeedStore, ParseInt(req[r1].body.projectId)) = <<>> ) =>
        /\ ~(req[r1].res.status = 201 /\ req[r2].res.status = 201)
        /\ Len(SelectById(store, ParseInt(req[r1].body.projectId))) <= 1
        /\ req[r1].res.status = 201 =>
             \/ req[r2].res.status = 409
             \/ req[r2].res \in WriteErrorResponses

\* the requests of call c that have been issued and have not ended
InFlight(c) == attempts[c] - Len(hist[c])

\* the retry timers of call c that have been set and have not fired
TimersPending(c) == Len(delays[c]) - retryCount[c]

\* C29: at every moment a call has at most one request in flight or one retry
\* timer pending, never both and never more; once its fetch has settled it
\* has neither, and no request is issued afterwards.
C29_OneOutstanding ==
  /\ [](\A c \in Calls :
          /\ InFlight(c) \in {0, 1}
          /\ TimersPending(c) \in {0, 1}
          /\ InFlight(c) + TimersPending(c) <= 1
          /\ timer[c] # 0 <=> TimersPending(c) = 1
          /\ timer[c] # 0 => InFlight(c) = 0
          /\ pc[c] \in {"fetched", "done"} =>
               InFlight(c) = 0 /\ TimersPending(c) = 0 /\ timer[c] = 0)
  /\ [][\A c \in Calls :
          pc[c] \in {"fetched", "done"} =>
            /\ attempts'[c] = attempts[c]
            /\ delays'[c] = delays[c]
            /\ timer'[c] = 0 ]_vars

\* the second retry timer pending, the two requests made so far ended
C29_Witness ==
  /\ pc[1] = "timer" /\ attempts[1] = 2 /\ Len(hist[1]) = 2
  /\ InFlight(1) = 0 /\ TimersPending(1) = 1 /\ timer[1] = 2000

====
